---------------------------- MODULE Spec2Model ----------------------------
(***************************************************************************)
(* Model of the vaulty-mail server: the postfix email/attachment handlers  *)
(* of server/src/controllers.rs with their RwLock-protected MAIL_CACHE and *)
(* the database client of lib/src/db/db.rs, and the inline postfix routes  *)
(* of server/src/routes.rs with their CHashMap MAIL_CACHE, the mailgun     *)
(* webhook handler of controllers.rs, and Error::map_status of the Dropbox *)
(* client in vaulty-lib/src/dropbox/api.rs.                                *)
(***************************************************************************)
EXTENDS Integers, Sequences, FiniteSets, TLC

(* ------------------------------ bounds -------------------------------- *)
\* number of POST /postfix/email requests (one email, one uuid, each)
MaxEmails == 2
\* number of POST /postfix/attachment requests
MaxAttCalls == 2
\* largest attachment count an email declares
MaxAttachments == 2
\* largest number of attachment descriptors in a mailgun payload
MaxDescriptors == 3
\* the HTTP status codes a provider response may carry
MinStatus == 100
MaxStatus == 599

EmailIds == 1..MaxEmails
AttIds == 1..MaxAttCalls

(* ------------------------------ values -------------------------------- *)
\* Rust's Option<T>
None == <<>>
Some(x) == <<x>>
IsSome(o) == o # None
Unwrap(o) == o[1]

\* A u32, kept as its two 16-bit halves (the value is hi * 2^16 + lo)
U32(n) == [hi |-> n \div (2^16), lo |-> n % (2^16)]
U32Zero == U32(0)
\* u32 wrapping_sub(1): 0 wraps to 2^32 - 1
U32WrappingDec(c) ==
    IF c.lo > 0 THEN [c EXCEPT !.lo = @ - 1]
    ELSE IF c.hi > 0 THEN [hi |-> c.hi - 1, lo |-> 2^16 - 1]
    ELSE [hi |-> 2^16 - 1, lo |-> 2^16 - 1]
\* Option<u32> of an email's declared attachment count
SomeU32(n) == Some(U32(n))

RECURSIVE F32Quantum(_, _)
\* spacing of the f32 values around n: f32 keeps 24 significant bits
F32Quantum(n, q) == IF n < (2^24) * q THEN q ELSE F32Quantum(n, 2 * q)

\* `n as f32` for a non-negative integer n: round to nearest, ties to even
AsF32(n) ==
    LET q == F32Quantum(n, 1)
        lo == (n \div q) * q
        r == n - lo
    IN  IF 2 * r < q THEN lo
        ELSE IF 2 * r > q THEN lo + q
        ELSE IF (lo \div q) % 2 = 0 THEN lo ELSE lo + q

(* ---------------------------- the database ---------------------------- *)
\* rows of the addresses table (address, max_email_size, quota), as provisioned
address_table ==
    [a \in {"a@x", "b@x"} |->
        IF a = "a@x" THEN [max_email_size |-> 16777216, quota |-> 1]
                     ELSE [max_email_size |-> 1000, quota |-> 5]]

\* the received column of the addresses table when the server starts
received0 == [a \in DOMAIN address_table |-> IF a = "a@x" THEN 0 ELSE 5]

\* the emails a postfix::email request may carry
EmailInputs ==
    { [recipients |-> <<"b@x", "a@x">>, size |-> 500, num_attachments |-> None],
      [recipients |-> <<"c@x", "a@x", "a@x">>, size |-> 500,
       num_attachments |-> SomeU32(0)],
      [recipients |-> <<"a@x">>, size |-> 16777217, num_attachments |-> None],
      [recipients |-> <<"b@x">>, size |-> 2000, num_attachments |-> None],
      [recipients |-> <<"c@x">>, size |-> 500, num_attachments |-> None] }
    \cup { [recipients |-> <<"a@x">>, size |-> 500, num_attachments |-> SomeU32(n)] :
             n \in 1..MaxAttachments }

VARIABLES
    received,   \* addresses.received, per address
    emails,     \* the emails table: uuid -> [recipient, status, error_msg]
    logs,       \* the logs table: set of [email_id, log_level]
    cache,      \* controllers.rs MAIL_CACHE: uuid -> CacheEntry
    lock,       \* the RwLock around it: [writer, readers]
    eh,         \* postfix::email requests
    ah,         \* postfix::attachment requests
    rcache,     \* routes.rs MAIL_CACHE: uuid -> MailSession
    re,         \* routes.rs email requests
    ra,         \* routes.rs attachment requests
    mg,         \* the mailgun request
    dbx         \* a Dropbox API response and what map_status made of it

cvars == <<received, emails, logs, cache, lock, eh, ah>>
rvars == <<rcache, re, ra>>
mvars == <<mg, dbx>>
vars == <<received, emails, logs, cache, lock, eh, ah, rcache, re, ra, mg, dbx>>

(* --------------------------- db.rs: Client ---------------------------- *)
\* rows matched by SELECT * FROM addresses WHERE address IN (recipients)
AddressRows(recipients) ==
    {a \in DOMAIN address_table : \E i \in DOMAIN recipients : recipients[i] = a}

\* the Address built from a row, with the received count read now
AddressOf(a) ==
    [address |-> a,
     max_email_size |-> address_table[a].max_email_size,
     quota |-> address_table[a].quota,
     received |-> received[a]]

\* Client::get_address: Ok(None) when no row matches, else Ok(Some(row)) for
\* the row fetch_optional yields; the query has no ORDER BY, so any matching
\* row may come first
get_address(recipients) ==
    IF AddressRows(recipients) = {} THEN {None}
    ELSE {Some(AddressOf(a)) : a \in AddressRows(recipients)}

\* the count written back from the Address read at resolution time
update_received_from_snapshot(address) ==
    [received EXCEPT ![address.address] = address.received + 1]

\* Client::update_address_received_count: received = received + 1 in the row
update_address_received_count(address) ==
    [received EXCEPT ![address.address] = @ + 1]

\* Client::insert_email: the row inserted for an email
insert_email(uuid, email) ==
    [k \in DOMAIN emails \cup {uuid} |->
        IF k = uuid
        THEN [recipient |-> email.recipients[1],
              num_attachments |-> IF IsSome(email.num_attachments)
                                  THEN Unwrap(email.num_attachments) ELSE U32Zero,
              status |-> None, error_msg |-> None]
        ELSE emails[k]]

\* the email row deleted instead of updated
delete_email(uuid, status, msg) ==
    { [k \in DOMAIN emails \ {uuid} |-> emails[k]] }

\* Client::update_email: best effort, the UPDATE may fail and is then ignored
update_email(uuid, status, msg) ==
    { emails,
      [k \in DOMAIN emails |->
          IF k = uuid THEN [emails[k] EXCEPT !.status = Some(status),
                                             !.error_msg = msg]
          ELSE emails[k]] }

\* Client::log: best effort, the INSERT may fail and is then ignored (the row
\* is kept without its message text)
log(msg, email_id, log_level) ==
    { logs, logs \cup {[email_id |-> email_id, log_level |-> log_level]} }

(* ------------------------------ RwLock -------------------------------- *)
NoLock == [writer |-> None, readers |-> {}]
CanRead == lock.writer = None
CanWrite == lock.writer = None /\ lock.readers = {}

(* ----------------------- controllers.rs: email ------------------------ *)
IdleEmail == [pc |-> "idle", recipients |-> <<>>, input |-> <<>>, size |-> 0,
              num_attachments |-> None, address |-> None, out |-> None]

Return(h, out) == [h EXCEPT !.pc = "done", !.out = Some(out)]

\* the recipients left as they arrived
RetainAll(recipients, recipient) == recipients

\* email.recipients.retain(|r| r == recipient)
Retain(recipients, recipient) == SelectSeq(recipients, LAMBDA r : r = recipient)

is_mail_size_exceeded(e) ==
    AsF32(e.size) > AsF32(Unwrap(e.address).max_email_size)
is_quota_exceeded(e) ==
    (Unwrap(e.address).received + 1) > Unwrap(e.address).quota
reject(e) == is_quota_exceeded(e) \/ is_mail_size_exceeded(e)
\* which of the two messages the rejection carries
RejectMsg(e) == IF is_mail_size_exceeded(e) THEN "size" ELSE "quota"
\* Error::QuotaExceeded(msg), the rejection of either limit
QuotaExceeded(msg) ==
    IF msg = "size" THEN "QuotaExceeded(size)" ELSE "QuotaExceeded(quota)"

\* lines 27-75: the request arrives, the address is resolved, the recipients
\* are narrowed
EmailGetAddress(p) ==
    /\ eh[p].pc = "idle"
    /\ \E in \in EmailInputs, failed \in BOOLEAN :
        LET e == [eh[p] EXCEPT !.recipients = in.recipients,
                               !.input = in.recipients,
                               !.size = in.size,
                               !.num_attachments = in.num_attachments]
        IN  IF failed
            THEN eh' = [eh EXCEPT ![p] = Return(e, "DbError")]
            ELSE \E address \in get_address(in.recipients) :
                   IF address = None
                   THEN eh' = [eh EXCEPT ![p] = [e EXCEPT !.pc = "log_invalid"]]
                   ELSE eh' = [eh EXCEPT ![p] =
                           [e EXCEPT !.pc = "validate_sender",
                                     !.address = address,
                                     !.recipients =
                                        Retain(in.recipients,
                                               Unwrap(address).address)]]
    /\ UNCHANGED <<received, emails, logs, cache, lock, ah, rvars, mvars>>

\* lines 55-67: no recipient is valid
EmailLogInvalid(p) ==
    /\ eh[p].pc = "log_invalid"
    /\ logs' \in log("rejecting", None, "Warning")
    /\ eh' = [eh EXCEPT ![p] = Return(@, "InvalidRecipient")]
    /\ UNCHANGED <<received, emails, cache, lock, ah, rvars, mvars>>

\* the email row inserted before the sender is validated
EmailValidateSenderAfterInsert(p) ==
    /\ eh[p].pc = "validate_sender"
    /\ emails' = insert_email(p, eh[p])
    /\ \E valid \in {"Err", "false", "true"} :
        eh' = [eh EXCEPT ![p] =
                 IF valid = "Err" THEN Return(@, "DbError")
                 ELSE IF valid = "false" THEN Return(@, "SenderNotWhitelisted")
                 ELSE [@ EXCEPT !.pc = "insert_email"]]
    /\ UNCHANGED <<received, logs, cache, lock, ah, rvars, mvars>>

\* lines 77-100: the sender whitelist, kept by the database
EmailValidateSender(p) ==
    /\ eh[p].pc = "validate_sender"
    /\ \E valid \in {"Err", "false", "true"} :
        eh' = [eh EXCEPT ![p] =
                 IF valid = "Err" THEN Return(@, "DbError")
                 ELSE IF valid = "false" THEN Return(@, "SenderNotWhitelisted")
                 ELSE [@ EXCEPT !.pc = "insert_email"]]
    /\ UNCHANGED <<received, emails, logs, cache, lock, ah, rvars, mvars>>

\* the cache entry created as soon as the email row is inserted
EmailInsertAndCache(p) ==
    /\ eh[p].pc = "insert_email"
    /\ \E failed \in BOOLEAN :
        IF failed
        THEN /\ eh' = [eh EXCEPT ![p] = Return(@, "DbError")]
             /\ UNCHANGED <<emails, cache>>
        ELSE /\ emails' = insert_email(p, eh[p])
             /\ cache' = [k \in DOMAIN cache \cup {p} |->
                            IF k = p
                            THEN [recipients |-> eh[p].recipients,
                                  num_attachments |-> SomeU32(1),
                                  address |-> Unwrap(eh[p].address)]
                            ELSE cache[k]]
             /\ eh' = [eh EXCEPT ![p].pc =
                         IF reject(eh[p]) THEN "log_reject" ELSE "increment"]
    /\ UNCHANGED <<received, logs, lock, ah, rvars, mvars>>

\* lines 102-115: the email row is inserted, then the limits are evaluated
EmailInsert(p) ==
    /\ eh[p].pc = "insert_email"
    /\ \E failed \in BOOLEAN :
        IF failed
        THEN /\ eh' = [eh EXCEPT ![p] = Return(@, "DbError")]
             /\ UNCHANGED emails
        ELSE /\ emails' = insert_email(p, eh[p])
             /\ eh' = [eh EXCEPT ![p].pc =
                         IF reject(eh[p]) THEN "log_reject" ELSE "increment"]
    /\ UNCHANGED <<received, logs, cache, lock, ah, rvars, mvars>>

\* lines 129-133
EmailLogReject(p) ==
    /\ eh[p].pc = "log_reject"
    /\ logs' \in log(RejectMsg(eh[p]), Some(p), "Warning")
    /\ eh' = [eh EXCEPT ![p].pc = "update_reject"]
    /\ UNCHANGED <<received, emails, cache, lock, ah, rvars, mvars>>

\* lines 135-138
EmailUpdateReject(p) ==
    /\ eh[p].pc = "update_reject"
    /\ emails' \in update_email(p, FALSE, Some(RejectMsg(eh[p])))
    /\ eh' = [eh EXCEPT ![p] = Return(@, QuotaExceeded(RejectMsg(eh[p])))]
    /\ UNCHANGED <<received, logs, cache, lock, ah, rvars, mvars>>

\* the increment with its error ignored
EmailIncrementIgnoreError(p) ==
    /\ eh[p].pc = "increment"
    /\ \E failed \in BOOLEAN :
        received' = IF failed THEN received
                    ELSE update_address_received_count(Unwrap(eh[p].address))
    /\ eh' = [eh EXCEPT ![p].pc = "log_accept"]
    /\ UNCHANGED <<emails, logs, cache, lock, ah, rvars, mvars>>

\* lines 141-148
EmailIncrement(p) ==
    /\ eh[p].pc = "increment"
    /\ \E failed \in BOOLEAN :
        IF failed
        THEN /\ eh' = [eh EXCEPT ![p] = Return(@, "DbError")]
             /\ UNCHANGED received
        ELSE /\ received' = update_address_received_count(Unwrap(eh[p].address))
             /\ eh' = [eh EXCEPT ![p].pc = "log_accept"]
    /\ UNCHANGED <<emails, logs, cache, lock, ah, rvars, mvars>>

\* line 168: a cache entry is created when num_attachments is Some(_)
HasCacheEntry(e) == IsSome(e.num_attachments)

\* lines 150-168
EmailLogAccept(p) ==
    /\ eh[p].pc = "log_accept"
    /\ logs' \in log("got email", Some(p), "Info")
    /\ eh' = [eh EXCEPT ![p] =
                IF HasCacheEntry(@) THEN [@ EXCEPT !.pc = "cache_write"]
                ELSE Return(@, "Ok")]
    /\ UNCHANGED <<received, emails, cache, lock, ah, rvars, mvars>>

\* line 176: MAIL_CACHE.write().await
EmailCacheWrite(p) ==
    /\ eh[p].pc = "cache_write"
    /\ CanWrite
    /\ lock' = [lock EXCEPT !.writer = Some(<<"email", p>>)]
    /\ eh' = [eh EXCEPT ![p].pc = "cache_insert"]
    /\ UNCHANGED <<received, emails, logs, cache, ah, rvars, mvars>>

\* lines 171-180: the entry is inserted, the guard dropped, the reply returned
EmailCacheInsert(p) ==
    /\ eh[p].pc = "cache_insert"
    /\ cache' = [k \in DOMAIN cache \cup {p} |->
                    IF k = p
                    THEN [recipients |-> eh[p].recipients,
                          num_attachments |-> eh[p].num_attachments,
                          address |-> Unwrap(eh[p].address)]
                    ELSE cache[k]]
    /\ lock' = NoLock
    /\ eh' = [eh EXCEPT ![p] = Return(@, "Ok")]
    /\ UNCHANGED <<received, emails, logs, ah, rvars, mvars>>

(* --------------------- controllers.rs: attachment --------------------- *)
IdleAttachment == [pc |-> "idle", mail_id |-> 0, entry |-> None, out |-> None]

\* the handler returns (or unwinds) and its cloned entry is dropped
Drop(h, out) == [Return(h, out) EXCEPT !.entry = None]

\* line 197: the request arrives for some mail_id; MAIL_CACHE.read().await
AttCacheRead(h) ==
    /\ ah[h].pc = "idle"
    /\ CanRead
    /\ \E mail_id \in EmailIds :
        ah' = [ah EXCEPT ![h] = [@ EXCEPT !.pc = "get", !.mail_id = mail_id]]
    /\ lock' = [lock EXCEPT !.readers = @ \cup {h}]
    /\ UNCHANGED <<received, emails, logs, cache, eh, rvars, mvars>>

\* the lookup with its read guard kept for the rest of the request
AttGetHoldGuard(h) ==
    /\ ah[h].pc = "get"
    /\ ah' = [ah EXCEPT ![h] =
                IF ah[h].mail_id \in DOMAIN cache
                THEN [@ EXCEPT !.pc = "log", !.entry = Some(cache[ah[h].mail_id])]
                ELSE Drop(@, "panic(get)")]
    /\ lock' = IF ah[h].mail_id \in DOMAIN cache THEN lock
               ELSE [lock EXCEPT !.readers = @ \ {h}]
    /\ UNCHANGED <<received, emails, logs, cache, eh, rvars, mvars>>

\* lines 196-199: cache.get(&mail_id).unwrap().clone(); unwrap panics on None,
\* the guard is dropped either way
AttGet(h) ==
    /\ ah[h].pc = "get"
    /\ ah' = [ah EXCEPT ![h] =
                IF ah[h].mail_id \in DOMAIN cache
                THEN [@ EXCEPT !.pc = "log", !.entry = Some(cache[ah[h].mail_id])]
                ELSE Drop(@, "panic(get)")]
    /\ lock' = [lock EXCEPT !.readers = @ \ {h}]
    /\ UNCHANGED <<received, emails, logs, cache, eh, rvars, mvars>>

\* the log write whose failure ends the request
AttLogOrFail(h) ==
    /\ ah[h].pc = "log"
    /\ \E written \in BOOLEAN :
        IF written
        THEN /\ logs' = logs \cup {[email_id |-> Some(ah[h].mail_id),
                                    log_level |-> "Info"]}
             /\ ah' = [ah EXCEPT ![h].pc = "cache_write"]
        ELSE /\ logs' = logs
             /\ ah' = [ah EXCEPT ![h] = Drop(@, "DbError")]
    /\ UNCHANGED <<received, emails, cache, lock, eh, rvars, mvars>>

\* lines 204-206
AttLog(h) ==
    /\ ah[h].pc = "log"
    /\ logs' \in log("got attachment", Some(ah[h].mail_id), "Info")
    /\ ah' = [ah EXCEPT ![h].pc = "cache_write"]
    /\ UNCHANGED <<received, emails, cache, lock, eh, rvars, mvars>>

\* line 211: MAIL_CACHE.write().await
AttCacheWrite(h) ==
    /\ ah[h].pc = "cache_write"
    /\ CanWrite
    /\ lock' = [lock EXCEPT !.writer = Some(<<"attachment", h>>)]
    /\ ah' = [ah EXCEPT ![h].pc = "decrement"]
    /\ UNCHANGED <<received, emails, logs, cache, eh, rvars, mvars>>

\* cache.remove(&mail_id)
Remove(c, mail_id) == [k \in DOMAIN c \ {mail_id} |-> c[k]]

\* the count stored back without the removal at zero
DecrementNoRemove(c, mail_id, count) ==
    [c EXCEPT ![mail_id].num_attachments = Some(count)]

\* lines 215-220: *attachment_count -= 1, and the entry is removed at zero
Decrement(c, mail_id, count) ==
    IF count = U32Zero THEN Remove(c, mail_id)
    ELSE [c EXCEPT ![mail_id].num_attachments = Some(count)]

\* lines 210-221: get_mut(&mail_id).unwrap() panics when the entry is gone;
\* the u32 subtraction at 0 panics with overflow checks and wraps without
\* them; the guard is dropped either way
AttDecrement(h) ==
    /\ ah[h].pc = "decrement"
    /\ LET mail_id == ah[h].mail_id IN
        IF mail_id \notin DOMAIN cache
        THEN /\ ah' = [ah EXCEPT ![h] = Drop(@, "panic(get_mut)")]
             /\ UNCHANGED cache
        ELSE LET n == Unwrap(cache[mail_id].num_attachments) IN
             \E overflow_checks \in BOOLEAN :
                IF n = U32Zero /\ overflow_checks
                THEN /\ ah' = [ah EXCEPT ![h] = Drop(@, "panic(overflow)")]
                     /\ UNCHANGED cache
                ELSE /\ cache' = Decrement(cache, mail_id, U32WrappingDec(n))
                     /\ ah' = [ah EXCEPT ![h].pc = "upload"]
    /\ lock' = NoLock
    /\ UNCHANGED <<received, emails, logs, eh, rvars, mvars>>

\* an upload followed by the decrement of the countdown
AttUploadThenDecrement(h) ==
    /\ ah[h].pc = "upload"
    /\ \E uploaded \in BOOLEAN :
        ah' = [ah EXCEPT ![h] =
                 IF uploaded THEN Drop(@, "Ok") ELSE [@ EXCEPT !.pc = "update_failed"]]
    /\ cache' = IF ah[h].mail_id \in DOMAIN cache
                THEN Decrement(cache, ah[h].mail_id,
                       U32WrappingDec(Unwrap(cache[ah[h].mail_id].num_attachments)))
                ELSE cache
    /\ UNCHANGED <<received, emails, logs, lock, eh, rvars, mvars>>

\* an upload that marks the email successful when it succeeds
AttUploadMarkSuccess(h) ==
    /\ ah[h].pc = "upload"
    /\ \E uploaded \in BOOLEAN :
        IF uploaded
        THEN /\ ah' = [ah EXCEPT ![h] = Drop(@, "Ok")]
             /\ emails' \in update_email(ah[h].mail_id, TRUE, None)
        ELSE /\ ah' = [ah EXCEPT ![h].pc = "update_failed"]
             /\ UNCHANGED emails
    /\ UNCHANGED <<received, logs, cache, lock, eh, rvars, mvars>>

\* lines 238-252: handler.handle(email, Some(attachment), name, size).await
AttUpload(h) ==
    /\ ah[h].pc = "upload"
    /\ \E uploaded \in BOOLEAN :
        ah' = [ah EXCEPT ![h] =
                 IF uploaded THEN Drop(@, "Ok") ELSE [@ EXCEPT !.pc = "update_failed"]]
    /\ UNCHANGED <<received, emails, logs, cache, lock, eh, rvars, mvars>>

\* lines 252-262: the email is marked failed and the error returned
AttUpdateFailed(h) ==
    /\ ah[h].pc = "update_failed"
    /\ emails' \in update_email(ah[h].mail_id, FALSE, Some("upload"))
    /\ ah' = [ah EXCEPT ![h] = Drop(@, "UploadError")]
    /\ UNCHANGED <<received, logs, cache, lock, eh, rvars, mvars>>

(* --------------------------- routes.rs -------------------------------- *)
IdleRoute == [pc |-> "idle", uuid |-> 0, out |-> None]

\* lines 77-94: the email route; a MailSession is inserted when
\* num_attachments is Some(n)
RouteEmail(p) ==
    /\ re[p].pc = "idle"
    /\ \E in \in EmailInputs :
        rcache' = IF IsSome(in.num_attachments)
                  THEN [k \in DOMAIN rcache \cup {p} |->
                          IF k = p
                          THEN [recipient |-> in.recipients[1],
                                num_attachments |-> Unwrap(in.num_attachments)]
                          ELSE rcache[k]]
                  ELSE rcache
    /\ re' = [re EXCEPT ![p] = [@ EXCEPT !.pc = "done", !.uuid = p, !.out = Some("Ok")]]
    /\ UNCHANGED <<cvars, ra, mvars>>

\* AtomicU32::fetch_sub(1, SeqCst): wraps at 0
fetch_sub(c, uuid) == [c EXCEPT ![uuid].num_attachments = U32WrappingDec(@)]

\* lines 105-127: the body is decoded (unwrap panics on a bad one), then under
\* the entry's write guard (get_mut(uuid).unwrap() panics on None) the count
\* is decremented; the guard is dropped before the removal
RouteAttachment(h) ==
    /\ ra[h].pc = "idle"
    /\ \E uuid \in EmailIds, decoded \in BOOLEAN :
        IF ~decoded \/ uuid \notin DOMAIN rcache
        THEN /\ ra' = [ra EXCEPT ![h] =
                        [@ EXCEPT !.pc = "done",
                                  !.out = Some(IF decoded THEN "panic(get_mut)"
                                               ELSE "panic(decode)"),
                                  !.uuid = IF decoded THEN uuid ELSE 0]]
             /\ UNCHANGED rcache
        ELSE LET is_last_attachment == rcache[uuid].num_attachments = U32(1) IN
             /\ rcache' = fetch_sub(rcache, uuid)
             /\ ra' = [ra EXCEPT ![h] =
                        IF is_last_attachment
                        THEN [@ EXCEPT !.pc = "remove", !.uuid = uuid]
                        ELSE [@ EXCEPT !.pc = "done", !.uuid = uuid,
                                       !.out = Some("Ok")]]
    /\ UNCHANGED <<cvars, re, mvars>>

\* lines 129-141: MAIL_CACHE.remove(uuid) by the request that saw the count at 1
RouteRemove(h) ==
    /\ ra[h].pc = "remove"
    /\ rcache' = Remove(rcache, ra[h].uuid)
    /\ ra' = [ra EXCEPT ![h] = [@ EXCEPT !.pc = "done", !.out = Some("Ok")]]
    /\ UNCHANGED <<cvars, re, mvars>>

(* ---------------------- controllers.rs: mailgun ----------------------- *)
IdleMailgun == [pc |-> "idle", parsed |-> FALSE, recipients |-> <<>>, n |-> 0,
                fetch |-> <<>>, ready |-> <<>>, handling |-> 0,
                results |-> <<>>, out |-> None]

ContentTypes == {None, Some("application/json"),
                 Some("application/x-www-form-urlencoded"), Some("text/plain")}

\* lines 280-314: the content types the handler parses
Parseable(content_type) ==
    content_type \in {Some("application/json"),
                      Some("application/x-www-form-urlencoded")}

\* only the result that arrived last is looked at
LastErr(results) == results # <<>> /\ results[Len(results)].r = "Err"

\* lines 343-350: some collected result is an Err
AnyErr(results) == \E i \in DOMAIN results : results[i].r = "Err"

\* lines 266-324: the payload is parsed (mail, then attachments) and one fetch
\* per attachment descriptor is put in the FuturesUnordered
MailgunParse ==
    /\ mg.pc = "idle"
    /\ \E content_type \in ContentTypes, mail_ok, attachments_ok \in BOOLEAN,
          in \in EmailInputs, n \in 0..MaxDescriptors :
        IF Parseable(content_type) /\ mail_ok /\ attachments_ok
        THEN mg' = [mg EXCEPT !.pc = "tasks", !.parsed = TRUE,
                              !.recipients = in.recipients, !.n = n,
                              !.fetch = [a \in 1..n |-> "pending"]]
        ELSE mg' = Return(mg, "NotFound")
    /\ UNCHANGED <<cvars, rvars, dbx>>

\* line 323: a.fetch(api_key) completes, in any order among the descriptors
MailgunFetch(a) ==
    /\ mg.pc = "tasks"
    /\ a \in DOMAIN mg.fetch
    /\ mg.fetch[a] = "pending"
    /\ \E r \in {"Ok", "Err"} :
        mg' = [mg EXCEPT !.fetch[a] = r, !.ready = Append(@, a)]
    /\ UNCHANGED <<cvars, rvars, dbx>>

\* lines 324-327: the stream yields the next completed fetch; an Err is passed
\* on, an Ok goes to and_then
MailgunPoll ==
    /\ mg.pc = "tasks"
    /\ mg.handling = 0
    /\ mg.ready # <<>>
    /\ LET a == Head(mg.ready) IN
        IF mg.fetch[a] = "Err"
        THEN mg' = [mg EXCEPT !.ready = Tail(@),
                              !.results = Append(@, [att |-> a, r |-> "Err",
                                                     dispatched |-> FALSE])]
        ELSE mg' = [mg EXCEPT !.ready = Tail(@), !.handling = a]
    /\ UNCHANGED <<cvars, rvars, dbx>>

\* lines 327-334: handler.handle(&mail, Some(data), name, size)
MailgunHandle ==
    /\ mg.pc = "tasks"
    /\ mg.handling # 0
    /\ \E r \in {"Ok", "Err"} :
        mg' = [mg EXCEPT !.handling = 0,
                         !.results = Append(@, [att |-> mg.handling, r |-> r,
                                                dispatched |-> TRUE])]
    /\ UNCHANGED <<cvars, rvars, dbx>>

\* lines 343-356: every result is collected, then the first Err rejects
MailgunCollect ==
    /\ mg.pc = "tasks"
    /\ Len(mg.results) = mg.n
    /\ mg' = Return(mg, IF AnyErr(mg.results) THEN "NotFound" ELSE "Ok")
    /\ UNCHANGED <<cvars, rvars, dbx>>

(* ------------------------- dropbox/api.rs ----------------------------- *)
IdleResponse == [status |-> 0, result |-> None]
StatusCodes == MinStatus..MaxStatus

\* every 2xx status taken for a success
map_status_2xx(status) ==
    IF status \div 100 = 2 THEN <<"Ok", status>>
    ELSE IF status = 400 THEN <<"BadInput">>
    ELSE IF status = 403 THEN <<"TokenExpired">>
    ELSE IF status = 409 THEN <<"Endpoint">>
    ELSE IF status = 429 THEN <<"RateLimited">>
    ELSE <<"Internal", status>>

\* Error::map_status: Ok(resp) or the Error of the response's status
map_status(status) ==
    IF status = 200 THEN <<"Ok", status>>
    ELSE IF status = 400 THEN <<"BadInput">>
    ELSE IF status = 403 THEN <<"TokenExpired">>
    ELSE IF status = 409 THEN <<"Endpoint">>
    ELSE IF status = 429 THEN <<"RateLimited">>
    ELSE <<"Internal", status>>

\* a response arrives and is mapped
MapStatus ==
    /\ dbx.result = None
    /\ \E status \in StatusCodes :
        dbx' = [status |-> status, result |-> Some(map_status(status))]
    /\ UNCHANGED <<cvars, rvars, mg>>

Init ==
    /\ received = received0
    /\ emails = <<>>
    /\ logs = {}
    /\ cache = <<>>
    /\ lock = NoLock
    /\ eh = [p \in EmailIds |-> IdleEmail]
    /\ ah = [h \in AttIds |-> IdleAttachment]
    /\ rcache = <<>>
    /\ re = [p \in EmailIds |-> IdleRoute]
    /\ ra = [h \in AttIds |-> IdleRoute]
    /\ mg = IdleMailgun
    /\ dbx = IdleResponse

Next ==
    \/ \E p \in EmailIds :
         \/ EmailGetAddress(p)
         \/ EmailLogInvalid(p)
         \/ EmailValidateSender(p)
         \/ EmailInsert(p)
         \/ EmailLogReject(p)
         \/ EmailUpdateReject(p)
         \/ EmailIncrement(p)
         \/ EmailLogAccept(p)
         \/ EmailCacheWrite(p)
         \/ EmailCacheInsert(p)
    \/ \E h \in AttIds :
         \/ AttCacheRead(h)
         \/ AttGet(h)
         \/ AttLog(h)
         \/ AttCacheWrite(h)
         \/ AttDecrement(h)
         \/ AttUpload(h)
         \/ AttUpdateFailed(h)

Spec == Init /\ [][Next]_vars

\* the admission pipeline alone: only postfix::email requests arrive
NextEmail ==
    \E p \in EmailIds :
         \/ EmailGetAddress(p)
         \/ EmailLogInvalid(p)
         \/ EmailValidateSender(p)
         \/ EmailInsert(p)
         \/ EmailLogReject(p)
         \/ EmailUpdateReject(p)
         \/ EmailIncrement(p)
         \/ EmailLogAccept(p)
         \/ EmailCacheWrite(p)
         \/ EmailCacheInsert(p)

SpecEmail == Init /\ [][NextEmail]_vars

\* the postfix routes of routes.rs
NextRoutes ==
    \/ \E p \in EmailIds : RouteEmail(p)
    \/ \E h \in AttIds : RouteAttachment(h) \/ RouteRemove(h)

SpecRoutes == Init /\ [][NextRoutes]_vars

\* the mailgun webhook
NextMailgun ==
    \/ MailgunParse
    \/ \E a \in 1..MaxDescriptors : MailgunFetch(a)
    \/ MailgunPoll
    \/ MailgunHandle
    \/ MailgunCollect

SpecMailgun == Init /\ [][NextMailgun]_vars

\* the mapping of Dropbox API responses
NextStatus == MapStatus

SpecStatus == Init /\ [][NextStatus]_vars

(* ============================== claims ================================ *)
\* the address a request resolved
Resolved(p) == Unwrap(eh[p].address).address
\* the attachment count an email declares, as a number
Declared(p) == Unwrap(eh[p].num_attachments).hi * (2^16)
               + Unwrap(eh[p].num_attachments).lo
\* postfix::email returned its success reply
Accepted(p) == eh[p].pc = "done" /\ eh[p].out = Some("Ok")
\* postfix::email inserted the email's cache entry
Registered(p) == Accepted(p) /\ IsSome(eh[p].num_attachments)
\* postfix::email is on, or has returned from, one of its rejection paths
Rejecting(p) ==
    \/ eh[p].pc \in {"log_invalid", "log_reject", "update_reject"}
    \/ eh[p].pc = "done" /\ eh[p].out # Some("Ok")
\* attachment requests for email e that have executed the decrement
Decremented(e) ==
    {h \in AttIds : /\ ah[h].mail_id = e
                    /\ \/ ah[h].pc \in {"upload", "update_failed"}
                       \/ ah[h].pc = "done"
                          /\ ah[h].out \in {Some("Ok"), Some("UploadError")}}
\* attachment requests for email e that have returned after their upload
Completed(e) ==
    {h \in AttIds : /\ ah[h].mail_id = e
                    /\ ah[h].pc = "done"
                    /\ ah[h].out \in {Some("Ok"), Some("UploadError")}}
\* attachment requests for email e that got past the lookup of its entry
FoundSession(e) ==
    {h \in AttIds : /\ ah[h].mail_id = e
                    /\ \/ ah[h].pc \in {"log", "cache_write", "decrement",
                                        "upload", "update_failed"}
                       \/ ah[h].pc = "done" /\ ah[h].out # Some("panic(get)")}

(* C1, as stated: for N >= 1, the session of an email registered with       *)
(* countdown N is in the cache in every state where fewer than N of its     *)
(* attachment calls have completed, and absent once N have.                 *)
C1_PresentUntilCompleted ==
    \A e \in EmailIds :
        Registered(e) /\ Declared(e) >= 1 =>
            /\ Cardinality(Completed(e)) < Declared(e) => e \in DOMAIN cache
            /\ Cardinality(Completed(e)) = Declared(e) => e \notin DOMAIN cache

(* C1, amended: for N >= 1, the session of an email registered with         *)
(* countdown N is in the cache exactly while fewer than N attachment calls  *)
(* have executed their decrement, whatever their uploads did afterwards; so *)
(* it is absent once N calls have completed.                                *)
C1_NoLeak ==
    \A e \in EmailIds :
        Registered(e) /\ Declared(e) >= 1 =>
            /\ e \in DOMAIN cache <=> Cardinality(Decremented(e)) < Declared(e)
            /\ Cardinality(Completed(e)) = Declared(e) => e \notin DOMAIN cache

\* two calls of a two-attachment email have completed, one upload failed,
\* and the session is gone
C1_Witness ==
    \E e \in EmailIds :
        /\ Registered(e) /\ Declared(e) = 2
        /\ Cardinality(Completed(e)) = 2
        /\ \E h \in Completed(e) : ah[h].out = Some("UploadError")
        /\ \E h \in Completed(e) : ah[h].out = Some("Ok")
        /\ e \notin DOMAIN cache

(* C2: a session is removed from the cache only when its countdown has just *)
(* gone from 1 to 0, never while the stored countdown is positive (stated   *)
(* for the cache of routes.rs, whose removal is a step of its own).         *)
C2_RemovedOnlyAtZero ==
    [][\A e \in EmailIds :
          e \in DOMAIN rcache /\ e \notin DOMAIN rcache' =>
              rcache[e].num_attachments = U32Zero]_vars

\* the same for the cache of controllers.rs, where the removal is part of the
\* decrement: an entry is removed by the step that finds its count at 1
C2_ControllersRemovedAtOne ==
    [][\A e \in EmailIds :
          e \in DOMAIN cache /\ e \notin DOMAIN cache' =>
              cache[e].num_attachments = SomeU32(1)]_vars

(* C3: the countdown stored for a session registered with N is N minus the  *)
(* number of attachment requests that have executed their decrement.        *)
C3_NoLostUpdates ==
    \A e \in DOMAIN cache :
        /\ Declared(e) - Cardinality(Decremented(e)) >= 0
        /\ Unwrap(cache[e].num_attachments) =
               U32(Declared(e) - Cardinality(Decremented(e)))

(* C4: an email has a session in the cache if and only if it was accepted   *)
(* with one or more declared attachments and fewer than that many have been *)
(* processed; an accepted email declaring none has no session.              *)
C4_SessionInvariant ==
    \A e \in EmailIds :
        e \in DOMAIN cache <=>
            /\ Accepted(e)
            /\ IsSome(eh[e].num_attachments)
            /\ Declared(e) >= 1
            /\ Cardinality(Decremented(e)) < Declared(e)

\* the request ended at a lookup of the cache that found no entry
NoSessionFound(h) ==
    ah[h].out \notin {Some("Ok"), Some("UploadError"), Some("panic(overflow)")}

(* C5: an attachment request whose email has no session in the cache ends   *)
(* with a SessionNotFound error reply.                                      *)
C5_SessionNotFound ==
    \A h \in AttIds :
        ah[h].pc = "done" /\ NoSessionFound(h)
        => ah[h].out = Some("SessionNotFound")

\* requests that have executed the increment of received
Incremented(a) ==
    {p \in EmailIds : /\ IsSome(eh[p].address)
                      /\ Resolved(p) = a
                      /\ \/ eh[p].pc \in {"log_accept", "cache_write", "cache_insert"}
                         \/ Accepted(p)}

(* C6: the received counter of an address is its starting value plus one    *)
(* for each email accepted for it, under any interleaving of the requests;  *)
(* a rejected email adds nothing.                                           *)
C6_QuotaMonotonicity ==
    \A a \in DOMAIN address_table :
        received[a] = received0[a] + Cardinality(Incremented(a))

\* two emails for one address were admitted from the same reading of received
C6_Witness ==
    \E p, q \in EmailIds :
        /\ p # q /\ Accepted(p) /\ Accepted(q)
        /\ Resolved(p) = Resolved(q)
        /\ Unwrap(eh[p].address).received = Unwrap(eh[q].address).received

(* C7: an email whose size exceeds max_email_size and for which             *)
(* received + 1 exceeds the quota is rejected with the size message.        *)
C7_AdmissionPrecedence ==
    \A p \in EmailIds :
        /\ eh[p].pc = "done"
        /\ eh[p].out \in {Some("QuotaExceeded(size)"), Some("QuotaExceeded(quota)")}
        /\ eh[p].size > Unwrap(eh[p].address).max_email_size
        /\ Unwrap(eh[p].address).received + 1 > Unwrap(eh[p].address).quota
        => eh[p].out = Some("QuotaExceeded(size)")

\* the first recipient of the list, in list order, that the directory holds
FirstValid(recipients) ==
    recipients[CHOOSE i \in DOMAIN recipients :
                  /\ recipients[i] \in DOMAIN address_table
                  /\ \A j \in 1..(i - 1) : recipients[j] \notin DOMAIN address_table]

(* C8: the resolved address is the first recipient, in the order of the     *)
(* email's recipient list, that exists in the address directory.            *)
C8_FirstRecipient ==
    \A p \in EmailIds :
        IsSome(eh[p].address) => Resolved(p) = FirstValid(eh[p].input)

(* C9, as stated: after the narrowing the recipient list has exactly one    *)
(* element, the resolved address.                                           *)
C9_ExactlyOneRecipient ==
    \A p \in EmailIds :
        IsSome(eh[p].address) => eh[p].recipients = <<Resolved(p)>>

\* how many times address a occurs in a recipient list
Occurrences(recipients, a) ==
    Cardinality({i \in DOMAIN recipients : recipients[i] = a})

(* C9, amended: after the narrowing the recipient list is not empty and     *)
(* every element of it is the resolved address, once per occurrence of that *)
(* address in the list that arrived (so exactly once when it is not         *)
(* repeated); the recipient persisted with the email is the resolved        *)
(* address.                                                                 *)
C9_Narrowing ==
    \A p \in EmailIds :
        IsSome(eh[p].address) =>
            /\ eh[p].recipients # <<>>
            /\ \A i \in DOMAIN eh[p].recipients : eh[p].recipients[i] = Resolved(p)
            /\ Len(eh[p].recipients) = Occurrences(eh[p].input, Resolved(p))
            /\ p \in DOMAIN emails => emails[p].recipient = Resolved(p)

\* an email with an unknown and a repeated recipient was persisted
C9_Witness ==
    \E p \in DOMAIN emails :
        /\ eh[p].input = <<"c@x", "a@x", "a@x">>
        /\ eh[p].recipients = <<"a@x", "a@x">>
        /\ emails[p].recipient = "a@x"

\* no attachment request for email e got as far as its upload
NoUpload(e) == FoundSession(e) = {}

(* C10: on every rejection path of postfix::email the session cache is left *)
(* as it was and no upload is started: the email never has a cache entry,   *)
(* no attachment request for it passes the lookup, and the step that        *)
(* rejects changes no entry.                                                *)
C10_ShortCircuit ==
    /\ [](\A p \in EmailIds : Rejecting(p) => p \notin DOMAIN cache /\ NoUpload(p))
    /\ [][\A p \in EmailIds :
            eh'[p] # eh[p] /\ Rejecting(p)' => cache' = cache]_vars

\* a rejected email, and an attachment request for it that found no session
C10_Witness ==
    \E p \in EmailIds, h \in AttIds :
        /\ eh[p].pc = "done" /\ eh[p].out = Some("QuotaExceeded(size)")
        /\ ah[h].mail_id = p /\ ah[h].pc = "done"

\* postfix::email returned the rejection of the size or quota limit
LimitRejected(p) ==
    /\ eh[p].pc = "done"
    /\ eh[p].out \in {Some("QuotaExceeded(size)"), Some("QuotaExceeded(quota)")}

(* C11, as stated: an email rejected for size or quota keeps its record,    *)
(* whose status reads failed with the rejection message, has a warning      *)
(* logged against its id, and received is not incremented for it.           *)
C11_RejectionPersisted ==
    \A p \in EmailIds :
        LimitRejected(p) =>
            /\ p \in DOMAIN emails
            /\ emails[p].status = Some(FALSE)
            /\ emails[p].error_msg = Some(RejectMsg(eh[p]))
            /\ [email_id |-> Some(p), log_level |-> "Warning"] \in logs

(* C11, amended: an email rejected for size or quota keeps its record and   *)
(* is never marked successful; the log row and the status are written best  *)
(* effort, in that order: the status write either goes through, and the     *)
(* status then reads failed with the rejection message, or fails and leaves *)
(* the record as inserted; any log row for the email id is a warning; no    *)
(* step of the rejection path changes received.                             *)
C11_RejectionBestEffort ==
    /\ [](\A p \in EmailIds :
            LimitRejected(p) =>
                /\ p \in DOMAIN emails
                /\ \/ emails[p].status = None /\ emails[p].error_msg = None
                   \/ /\ emails[p].status = Some(FALSE)
                      /\ emails[p].error_msg = Some(RejectMsg(eh[p]))
                /\ \A l \in logs : l.email_id = Some(p) => l.log_level = "Warning")
    /\ [][\A p \in EmailIds :
            eh'[p] # eh[p] /\ eh[p].pc \in {"log_reject", "update_reject"} =>
                /\ received' = received
                /\ DOMAIN emails' = DOMAIN emails
                /\ eh[p].pc = "update_reject" /\ emails' # emails =>
                      emails'[p].status = Some(FALSE)]_vars

\* a size rejection whose log row and status were both written
C11_Witness ==
    \E p \in EmailIds :
        /\ eh[p].pc = "done" /\ eh[p].out = Some("QuotaExceeded(size)")
        /\ emails[p].status = Some(FALSE)
        /\ emails[p].error_msg = Some("size")
        /\ [email_id |-> Some(p), log_level |-> "Warning"] \in logs
        /\ received = received0

\* requests for address a that returned success or registered a session
Succeeded(a) ==
    {p \in EmailIds : /\ IsSome(eh[p].address)
                      /\ Resolved(p) = a
                      /\ Accepted(p) \/ p \in DOMAIN cache}

(* C12: when the increment of received fails, postfix::email returns a      *)
(* rejection and registers no session; every success reply and every        *)
(* registered session is backed by an increment that went through.          *)
C12_NoSuccessWithoutIncrement ==
    /\ [](\A a \in DOMAIN address_table :
            Cardinality(Succeeded(a)) <= received[a] - received0[a])
    /\ [][\A p \in EmailIds :
            eh[p].pc = "increment" /\ eh'[p] # eh[p] /\ received' = received =>
                /\ eh'[p].pc = "done"
                /\ eh'[p].out # Some("Ok")
                /\ cache' = cache]_vars
    /\ [](\A p \in EmailIds :
            eh[p].pc = "done" /\ eh[p].out # Some("Ok") => p \notin DOMAIN cache)

\* an email declaring attachments was inserted, its increment failed, and it
\* was rejected without a session
C12_Witness ==
    \E p \in DOMAIN emails :
        /\ eh[p].pc = "done" /\ eh[p].out = Some("DbError")
        /\ IsSome(eh[p].num_attachments) /\ Declared(p) >= 1
        /\ received[Resolved(p)] = received0[Resolved(p)]
        /\ p \notin DOMAIN cache

\* the attachment descriptors whose fetch and dispatch both succeeded
Delivered ==
    {a \in 1..mg.n : /\ mg.fetch[a] = "Ok"
                     /\ \E i \in DOMAIN mg.results :
                          /\ mg.results[i].att = a
                          /\ mg.results[i].r = "Ok"
                          /\ mg.results[i].dispatched}

(* C13: the mailgun handler acknowledges a request with success exactly     *)
(* when the payload was parsed and every attachment was fetched and         *)
(* dispatched successfully; one failed fetch or dispatch rejects the whole  *)
(* request, in whatever order the fetches complete, and the reply is given  *)
(* only after every attachment has its result.                              *)
C13_BatchFailure ==
    mg.pc = "done" =>
        /\ mg.out = Some("Ok") <=> mg.parsed /\ Delivered = 1..mg.n
        /\ mg.out # Some("Ok") => mg.out = Some("NotFound")
        /\ mg.parsed => Len(mg.results) = mg.n /\ mg.ready = <<>>

\* three descriptors: the second fetch failed after the first was dispatched,
\* the third was fetched and dispatched after it, and the request is rejected
C13_Witness ==
    /\ mg.pc = "done" /\ mg.out = Some("NotFound") /\ mg.n = 3
    /\ mg.fetch = <<"Ok", "Err", "Ok">>
    /\ mg.results = << [att |-> 1, r |-> "Ok", dispatched |-> TRUE],
                       [att |-> 2, r |-> "Err", dispatched |-> FALSE],
                       [att |-> 3, r |-> "Ok", dispatched |-> TRUE] >>

(* C14: the mailgun handler returns success, and dispatches attachments to  *)
(* storage, only for an email that the admission checks accept; an email    *)
(* none of whose recipients resolves is never acknowledged or dispatched.   *)
C14_AdmissionBeforeDispatch ==
    (mg.out = Some("Ok") \/ \E i \in DOMAIN mg.results : mg.results[i].dispatched)
    => AddressRows(mg.recipients) # {}

(* C15: once the status of an email reads failed it reads failed in every   *)
(* later state, whatever its other attachments do; an attachment request    *)
(* whose upload failed writes the failed status (best effort) and returns   *)
(* the upload error to its caller; an upload that succeeds writes nothing.  *)
C15_FailureSticky ==
    /\ [][\A e \in DOMAIN emails :
            emails[e].status = Some(FALSE) =>
                e \in DOMAIN emails' /\ emails'[e].status = Some(FALSE)]_vars
    /\ [][\A h \in AttIds :
            ah[h].pc = "update_failed" /\ ah'[h] # ah[h] =>
                /\ ah'[h].pc = "done" /\ ah'[h].out = Some("UploadError")
                /\ emails' # emails =>
                      /\ emails'[ah[h].mail_id].status = Some(FALSE)
                      /\ emails'[ah[h].mail_id].error_msg = Some("upload")]_vars
    /\ [][\A h \in AttIds :
            ah[h].pc = "upload" /\ ah'[h] # ah[h] => emails' = emails]_vars

\* of the two attachments of an accepted email one failed to upload and the
\* other was uploaded, and the status reads failed
C15_Witness ==
    \E e \in DOMAIN emails, h, g \in AttIds :
        /\ Accepted(e) /\ ah[h].mail_id = e /\ ah[g].mail_id = e
        /\ ah[h].pc = "done" /\ ah[h].out = Some("UploadError")
        /\ ah[g].pc = "done" /\ ah[g].out = Some("Ok")
        /\ emails[e].status = Some(FALSE)
        /\ emails[e].error_msg = Some("upload")

(* C16: Error::map_status returns Ok exactly for status 200 and otherwise   *)
(* BadInput for 400, TokenExpired for 403, Endpoint for 409, RateLimited    *)
(* for 429 and Internal with the status code for every other status, the    *)
(* other 2xx codes and 401 included.                                        *)
C16_StatusTaxonomy ==
    IsSome(dbx.result) =>
        LET r == Unwrap(dbx.result) IN
        /\ r[1] = "Ok" <=> dbx.status = 200
        /\ r[1] = "BadInput" <=> dbx.status = 400
        /\ r[1] = "TokenExpired" <=> dbx.status = 403
        /\ r[1] = "Endpoint" <=> dbx.status = 409
        /\ r[1] = "RateLimited" <=> dbx.status = 429
        /\ dbx.status \notin {200, 400, 403, 409, 429} =>
              r = <<"Internal", dbx.status>>
        /\ r[1] \in {"Ok", "BadInput", "TokenExpired", "Endpoint",
                     "RateLimited", "Internal"}

\* a 201 response was mapped to Internal(201)
C16_Witness ==
    dbx.status = 201 /\ dbx.result = Some(<<"Internal", 201>>)

\* some attachment request has decremented the countdown of session e
RouteDecremented(e) ==
    \E h \in AttIds :
        /\ ra[h].uuid = e
        /\ ra[h].pc = "remove" \/ (ra[h].pc = "done" /\ ra[h].out = Some("Ok"))

(* C17: no caller can observe a session whose countdown has been brought to *)
(* zero: every session in the cache that requests have decremented has a    *)
(* countdown other than zero (stated for the cache of routes.rs, which a    *)
(* request can access in every state).                                      *)
C17_NoZeroObserved ==
    \A e \in DOMAIN rcache :
        RouteDecremented(e) => rcache[e].num_attachments # U32Zero

\* the same for the cache of controllers.rs, where the removal is made under
\* the write lock of the decrement: whenever the lock is free, a session
\* registered with one or more attachments has a countdown other than zero
C17_ControllersNoZero ==
    \A e \in DOMAIN cache :
        lock = NoLock /\ Declared(e) >= 1 =>
            Unwrap(cache[e].num_attachments) # U32Zero

(* C18, as stated: the countdown is decremented only after the upload of    *)
(* the attachment has finished, so the session of an attachment whose       *)
(* upload is in flight is still in the cache.                               *)
C18_DecrementAfterUpload ==
    \A h \in AttIds : ah[h].pc = "upload" => ah[h].mail_id \in DOMAIN cache

(* C18, amended: within one attachment request the session is looked up and *)
(* cloned first, the countdown is decremented (and the session removed at   *)
(* zero) next, and the upload starts only from that decrement; the upload   *)
(* and the status write after it work on the clone and leave the cache as   *)
(* it is, whether or not the session is still there.                        *)
C18_DecrementBeforeUpload ==
    /\ [](\A h \in AttIds :
            ah[h].pc \in {"upload", "update_failed"} => IsSome(ah[h].entry))
    /\ [][\A h \in AttIds :
            ah'[h].pc = "upload" /\ ah[h].pc # "upload" =>
                /\ ah[h].pc = "decrement"
                /\ ah[h].mail_id \in DOMAIN cache
                /\ cache' # cache]_vars
    /\ [][\A h \in AttIds :
            ah[h].pc \in {"upload", "update_failed"} /\ ah'[h] # ah[h] =>
                cache' = cache]_vars

\* the upload of an email's only attachment is in flight and its session has
\* already been removed
C18_Witness ==
    \E h \in AttIds :
        /\ ah[h].pc = "upload" /\ IsSome(ah[h].entry)
        /\ Registered(ah[h].mail_id) /\ Declared(ah[h].mail_id) = 1
        /\ ah[h].mail_id \notin DOMAIN cache

\* the request holds the read or the write lock of the cache
HoldsLock(who) == lock.writer = Some(who) \/ (who[1] = "attachment" /\ who[2] \in lock.readers)

\* postfix::email is at a database operation
EmailSuspended(p) ==
    eh[p].pc \in {"log_invalid", "validate_sender", "insert_email", "log_reject",
                  "update_reject", "increment", "log_accept"}
\* postfix::attachment is at a database operation or at its upload
AttSuspended(h) == ah[h].pc \in {"log", "upload", "update_failed"}

(* C19: a request that is at a storage upload or at a database operation    *)
(* (log, insert, status update, counter increment) holds neither the read   *)
(* nor the write lock of the session cache, and neither does a request that *)
(* has returned or is waiting for the lock.                                 *)
C19_NoLockAcrossAwait ==
    /\ \A p \in EmailIds :
         EmailSuspended(p) \/ eh[p].pc \in {"idle", "cache_write", "done"}
         => ~HoldsLock(<<"email", p>>)
    /\ \A h \in AttIds :
         AttSuspended(h) \/ ah[h].pc \in {"idle", "cache_write", "done"}
         => ~HoldsLock(<<"attachment", h>>)

\* an upload is in flight while another request holds the write lock, and a
\* third request is at a database operation
C19_Witness ==
    \E h, g \in AttIds, p \in EmailIds :
        /\ ah[h].pc = "upload"
        /\ lock.writer = Some(<<"attachment", g>>)
        /\ EmailSuspended(p)

\* the email ids of the requests that hold the lock of the cache
HolderIds ==
    {ah[g].mail_id : g \in lock.readers}
    \cup (IF lock.writer = None THEN {}
          ELSE IF Unwrap(lock.writer)[1] = "email" THEN {Unwrap(lock.writer)[2]}
          ELSE {ah[Unwrap(lock.writer)[2]].mail_id})

(* C20: a cache operation for one email id never waits for a lock held by a *)
(* cache operation for a different email id: whenever a request waiting for *)
(* the write lock cannot take it, every holder works on the same email id.  *)
C20_PerKeyIndependence ==
    /\ \A h \in AttIds :
         ah[h].pc = "cache_write" /\ ~CanWrite => HolderIds \subseteq {ah[h].mail_id}
    /\ \A p \in EmailIds :
         eh[p].pc = "cache_write" /\ ~CanWrite => HolderIds \subseteq {p}

\* postfix::email returned a rejection decided before the email is inserted
EarlyRejected(p) ==
    /\ eh[p].pc = "done"
    /\ \/ eh[p].out \in {Some("InvalidRecipient"), Some("SenderNotWhitelisted")}
       \/ eh[p].out = Some("DbError") /\ eh[p].input # <<>> /\ p \notin DOMAIN emails

(* C21: a rejection decided before the persistence step (no recipient       *)
(* resolves, sender validation error, sender not whitelisted) inserts no    *)
(* email record, writes no status and leaves received unchanged; of these   *)
(* paths only the invalid-recipient one writes a log row, and that row      *)
(* carries no email id.                                                     *)
C21_NoPersistenceBeforeInsert ==
    /\ [](\A p \in EmailIds :
            EarlyRejected(p) =>
                /\ p \notin DOMAIN emails
                /\ \A l \in logs : l.email_id # Some(p))
    /\ [][\A p \in EmailIds :
            /\ eh'[p] # eh[p]
            /\ eh[p].pc \in {"idle", "log_invalid", "validate_sender"}
            => /\ emails' = emails
               /\ received' = received
               /\ cache' = cache
               /\ logs' # logs =>
                    /\ eh[p].pc = "log_invalid"
                    /\ logs' = logs \cup {[email_id |-> None,
                                           log_level |-> "Warning"]}]_vars

\* one request was rejected for its sender and another for its recipients,
\* whose warning was logged without an email id; nothing else was persisted
C21_Witness ==
    \E p, q \in EmailIds :
        /\ eh[p].pc = "done" /\ eh[p].out = Some("SenderNotWhitelisted")
        /\ eh[q].pc = "done" /\ eh[q].out = Some("InvalidRecipient")
        /\ logs = {[email_id |-> None, log_level |-> "Warning"]}
        /\ emails = <<>>
        /\ received = received0

\* what a request of postfix::email does at a best-effort write, whatever
\* becomes of the write
AfterEmailWrite(e) ==
    IF e.pc = "log_invalid" THEN Return(e, "InvalidRecipient")
    ELSE IF e.pc = "log_reject" THEN [e EXCEPT !.pc = "update_reject"]
    ELSE IF e.pc = "update_reject" THEN Return(e, QuotaExceeded(RejectMsg(e)))
    ELSE IF IsSome(e.num_attachments) THEN [e EXCEPT !.pc = "cache_write"]
    ELSE Return(e, "Ok")

\* the same for a request of postfix::attachment
AfterAttWrite(a) ==
    IF a.pc = "log" THEN [a EXCEPT !.pc = "cache_write"]
    ELSE Drop(a, "UploadError")

(* C22: a best-effort write (audit log, email status) never changes an      *)
(* outcome: the step of postfix::email or postfix::attachment that makes    *)
(* such a write continues to the same point, with the same reply, whether   *)
(* the write went through or failed, and leaves every other request, the    *)
(* session cache, its lock and received as they were; the write itself      *)
(* touches nothing but the log rows and the status of records that exist.   *)
C22_BestEffortNoninterference ==
    /\ [][\A p \in EmailIds :
            /\ eh'[p] # eh[p]
            /\ eh[p].pc \in {"log_invalid", "log_reject", "update_reject",
                             "log_accept"}
            => /\ eh' = [eh EXCEPT ![p] = AfterEmailWrite(eh[p])]
               /\ <<ah, cache, lock, received>> = <<ah, cache, lock, received>>'
               /\ DOMAIN emails' = DOMAIN emails]_vars
    /\ [][\A h \in AttIds :
            /\ ah'[h] # ah[h]
            /\ ah[h].pc \in {"log", "update_failed"}
            => /\ ah' = [ah EXCEPT ![h] = AfterAttWrite(ah[h])]
               /\ <<eh, cache, lock, received>> = <<eh, cache, lock, received>>'
               /\ DOMAIN emails' = DOMAIN emails]_vars

\* two requests with the same email, resolved alike and both rejected for the
\* quota, got the same reply although only one of the status writes and none
\* of the log writes went through
C22_Witness ==
    \E p, q \in EmailIds :
        /\ eh[p].pc = "done" /\ eh[q].pc = "done"
        /\ eh[p].out = Some("QuotaExceeded(quota)") /\ eh[q].out = eh[p].out
        /\ eh[p].input = eh[q].input /\ eh[p].address = eh[q].address
        /\ emails[p].status = Some(FALSE) /\ emails[q].status = None
        /\ logs = {}
        /\ cache = <<>>

(* C23: in the mailgun batch, once the fetch or the dispatch of one          *)
(* attachment has failed, no further attachment of the batch is dispatched  *)
(* to the storage backend.                                                  *)
C23_FirstFailureCancels ==
    \A i, j \in DOMAIN mg.results :
        i < j /\ mg.results[i].r = "Err" => ~mg.results[j].dispatched

(* C24: under any interleaving of postfix::email requests for one address,  *)
(* the received counter of the address is at most its quota.                *)
C24_QuotaNeverExceeded ==
    \A a \in DOMAIN address_table : received[a] <= address_table[a].quota

(* C25: an attachment request that found its session (one registered with   *)
(* one or more attachments) completes by returning a response: the upload's *)
(* success reply or its error.                                              *)
C25_FoundThenResponds ==
    \A h \in AttIds :
        /\ ah[h].pc = "done"
        /\ h \in FoundSession(ah[h].mail_id)
        /\ Declared(ah[h].mail_id) >= 1
        => ah[h].out \in {Some("Ok"), Some("UploadError")}

\* the part of C25 about the lock: a request holds the cache lock only in the
\* step between its acquisition and the end of that block, never two holds at
\* once, and the write lock excludes every other hold
C25_NoNestedLocks ==
    /\ \A h \in AttIds :
         /\ h \in lock.readers <=> ah[h].pc = "get"
         /\ lock.writer = Some(<<"attachment", h>>) <=> ah[h].pc = "decrement"
    /\ \A p \in EmailIds :
         lock.writer = Some(<<"email", p>>) <=> eh[p].pc = "cache_insert"
    /\ lock.writer # None => lock.readers = {}
=============================================================================
